---- MODULE Spec2Model ----
(***************************************************************************)
(* Model of the code-point set library (src/src/codepoints.rs and          *)
(* src/src/validation.rs).                                                 *)
(*                                                                         *)
(* Representation                                                          *)
(*   CodePoints { codepoints: HashSet<u32> }  a TLA+ set of numbers        *)
(*   &str                                     the sequence of its UTF-8    *)
(*                                            bytes (numbers 0..255)       *)
(*   Vec<u32>                                 a sequence of numbers        *)
(*   Option<T>      None is <<>>, Some(x) is <<x>>                         *)
(*   (u32, usize)   the pair <<cp, char_idx>>                              *)
(*   Result<(), ValidationError>                                           *)
(*                  Ok(()) is [ok |-> TRUE],                               *)
(*                  Err(e) is [ok |-> FALSE, err |-> e]                    *)
(*   ValidationError  [code_point, position, message]                      *)
(*   &[CodePoints], &[&CodePoints]            a sequence of sets           *)
(***************************************************************************)
EXTENDS Integers, Sequences, FiniteSets

VARIABLES kind, self, other, chars, text, list, vecs, args, op, ret,
          which, once, slot, pc, path, local, calls, constructions, got

cacheVars == <<which, once, slot, pc, path, local, calls, constructions, got>>

vars == <<kind, self, other, chars, text, list, vecs, args, op, ret, cacheVars>>

(***************************************************************************)
(* Bounds of the model.                                                    *)
(***************************************************************************)
MaxLen  == 3    \* longest input text, in characters
MaxList == 2    \* longest list of sets given to the multi-set functions
MaxVec  == 3    \* longest vector given to CodePoints::new
NThreads == 2   \* threads that call a cached accessor
MaxCalls == 2   \* calls of the accessor made by each thread
MaxPos  == 11   \* largest position given to ValidationError::new

\* The scalar values the inputs are drawn from: 'A' (U+0041, one UTF-8
\* byte), HIRAGANA LETTER A (U+3042, three bytes) and U+2000B (outside the
\* Basic Multilingual Plane, four bytes).
Universe == {65, 12354, 131083}

None == <<>>
Some(x) == <<x>>
Ok == [ok |-> TRUE]
Err(e) == [ok |-> FALSE, err |-> e]

(***************************************************************************)
(* &str: UTF-8.  Utf8Char is the encoding of one scalar value, Utf8 the    *)
(* encoding of a sequence of scalar values (how a string literal or a      *)
(* String holding these characters is laid out in memory).                 *)
(***************************************************************************)
Utf8Char(cp) ==
    IF cp < 128 THEN <<cp>>
    ELSE IF cp < 2048 THEN <<192 + (cp \div 64), 128 + (cp % 64)>>
    ELSE IF cp < 65536 THEN
        <<224 + (cp \div 4096), 128 + ((cp \div 64) % 64), 128 + (cp % 64)>>
    ELSE <<240 + (cp \div 262144), 128 + ((cp \div 4096) % 64),
           128 + ((cp \div 64) % 64), 128 + (cp % 64)>>

RECURSIVE Utf8(_)
Utf8(cs) == IF cs = <<>> THEN <<>> ELSE Utf8Char(Head(cs)) \o Utf8(Tail(cs))

(***************************************************************************)
(* s.chars(): the iterator over the scalar values of a &str, decoding      *)
(* UTF-8 from the lead byte of each character.                             *)
(***************************************************************************)
RECURSIVE chars_from(_, _)
chars_from(s, i) ==
    IF i > Len(s) THEN <<>>
    ELSE LET b == s[i] IN
         IF b < 128 THEN <<b>> \o chars_from(s, i + 1)
         ELSE IF b < 224 THEN
              <<(b - 192) * 64 + (s[i + 1] - 128)>> \o chars_from(s, i + 2)
         ELSE IF b < 240 THEN
              <<(b - 224) * 4096 + (s[i + 1] - 128) * 64 + (s[i + 2] - 128)>>
                  \o chars_from(s, i + 3)
         ELSE <<(b - 240) * 262144 + (s[i + 1] - 128) * 4096
                  + (s[i + 2] - 128) * 64 + (s[i + 3] - 128)>>
                  \o chars_from(s, i + 4)

\* Mutant: the text is walked by UTF-16 code unit (s.encode_utf16()): a
\* character above U+FFFF comes out as its two surrogates.
RECURSIVE utf16_units(_)
utf16_units(cs) ==
    IF cs = <<>> THEN <<>>
    ELSE IF Head(cs) < 65536 THEN <<Head(cs)>> \o utf16_units(Tail(cs))
    ELSE <<55296 + ((Head(cs) - 65536) \div 1024),
           56320 + ((Head(cs) - 65536) % 1024)>> \o utf16_units(Tail(cs))

str_encode_utf16(s) == utf16_units(chars_from(s, 1))

str_chars(s) == chars_from(s, 1)

(***************************************************************************)
(* CodePoints::new: collects the vector into the HashSet.                  *)
(***************************************************************************)
CodePoints_new(codepoints) == {codepoints[i] : i \in DOMAIN codepoints}

(***************************************************************************)
(* CodePoints::from_string: the scalar values of s, collected into the     *)
(* HashSet.                                                                *)
(***************************************************************************)
from_string(s) == CodePoints_new(str_chars(s))

(***************************************************************************)
(* CodePoints::contains: s.chars().all(|c| self.codepoints.contains(c)).   *)
(* Iterator::all stops at the first character that fails the test.         *)
(***************************************************************************)
RECURSIVE all_in(_, _, _)
all_in(codepoints, cs, i) ==
    IF i > Len(cs) THEN TRUE
    ELSE IF cs[i] \notin codepoints THEN FALSE
    ELSE all_in(codepoints, cs, i + 1)

\* Mutant: the membership test runs over the bytes of the text (s.bytes())
\* instead of its characters.
contains_over_bytes(codepoints, s) == all_in(codepoints, s, 1)

contains(codepoints, s) == all_in(codepoints, str_chars(s), 1)

(***************************************************************************)
(* CodePoints::first_excluded_with_position:                               *)
(* s.chars().enumerate().find_map(..), char_idx counting from 0.           *)
(***************************************************************************)
RECURSIVE find_map_excluded(_, _, _)
find_map_excluded(codepoints, cs, i) ==
    IF i > Len(cs) THEN None
    ELSE LET cp == cs[i]
             char_idx == i - 1
         IN  IF cp \notin codepoints THEN Some(<<cp, char_idx>>)
             ELSE find_map_excluded(codepoints, cs, i + 1)

\* Mutant: the position is the byte offset of the character
\* (s.char_indices()) instead of its character index.
RECURSIVE find_map_byte_offset(_, _, _)
find_map_byte_offset(codepoints, s, i) ==
    IF i > Len(s) THEN None
    ELSE LET width == IF s[i] < 128 THEN 1 ELSE IF s[i] < 224 THEN 2
                      ELSE IF s[i] < 240 THEN 3 ELSE 4
             cp == str_chars(SubSeq(s, i, i + width - 1))[1]
         IN  IF cp \notin codepoints THEN Some(<<cp, i - 1>>)
             ELSE find_map_byte_offset(codepoints, s, i + width)

first_excluded_with_position_byte_offset(codepoints, s) ==
    find_map_byte_offset(codepoints, s, 1)

first_excluded_with_position(codepoints, s) ==
    find_map_excluded(codepoints, str_chars(s), 1)

(***************************************************************************)
(* CodePoints::first_excluded: the same with the position dropped.         *)
(***************************************************************************)
first_excluded(codepoints, s) ==
    LET r == first_excluded_with_position(codepoints, s)
    IN  IF r = None THEN None ELSE Some(r[1][1])

(***************************************************************************)
(* CodePoints::all_excluded: one pass with a `seen` set and a result       *)
(* vector; seen.insert(cp) is true only the first time cp is inserted.     *)
(***************************************************************************)
RECURSIVE all_excluded_loop(_, _, _, _, _)
all_excluded_loop(codepoints, cs, i, seen, result) ==
    IF i > Len(cs) THEN result
    ELSE LET cp == cs[i] IN
         IF cp \notin codepoints /\ cp \notin seen
         THEN all_excluded_loop(codepoints, cs, i + 1, seen \cup {cp},
                                Append(result, cp))
         ELSE all_excluded_loop(codepoints, cs, i + 1, seen, result)

\* Mutant: a new excluded code point is inserted at the front of the result.
all_excluded_newest_first(codepoints, s) ==
    LET result == all_excluded_loop(codepoints, str_chars(s), 1, {}, <<>>)
    IN  [i \in 1..Len(result) |-> result[Len(result) + 1 - i]]

\* Mutant: no `seen` set, every excluded occurrence is pushed.
all_excluded_every_occurrence(codepoints, s) ==
    SelectSeq(str_chars(s), LAMBDA cp : cp \notin codepoints)

all_excluded(codepoints, s) ==
    all_excluded_loop(codepoints, str_chars(s), 1, {}, <<>>)

(***************************************************************************)
(* CodePoints::union: clones self.codepoints and extends the clone with    *)
(* the items of other.codepoints, one insert per item (HashSet::extend).   *)
(***************************************************************************)
RECURSIVE extend(_, _)
extend(codepoints, items) ==
    IF items = {} THEN codepoints
    ELSE LET v == CHOOSE x \in items : TRUE
         IN  extend(codepoints \cup {v}, items \ {v})

\* Mutant: the clone is returned without the items of other.
union_without_extend(codepoints, other_codepoints) ==
    LET clone == codepoints
    IN  clone

union(codepoints, other_codepoints) ==
    LET clone == codepoints
    IN  extend(clone, other_codepoints)

(***************************************************************************)
(* CodePoints::is_subset_of / is_superset_of: HashSet::is_subset compares  *)
(* the sizes first and then tests every item of self against other;        *)
(* HashSet::is_superset(a, b) is b.is_subset(a).                           *)
(***************************************************************************)
RECURSIVE all_items_in(_, _)
all_items_in(items, other_codepoints) ==
    IF items = {} THEN TRUE
    ELSE LET v == CHOOSE x \in items : TRUE
         IN  IF v \notin other_codepoints THEN FALSE
             ELSE all_items_in(items \ {v}, other_codepoints)

\* Mutant: the size test is strict (a proper-subset test).
is_subset_of_strict(codepoints, other_codepoints) ==
    IF Cardinality(codepoints) < Cardinality(other_codepoints)
    THEN all_items_in(codepoints, other_codepoints)
    ELSE FALSE

is_subset_of(codepoints, other_codepoints) ==
    IF Cardinality(codepoints) <= Cardinality(other_codepoints)
    THEN all_items_in(codepoints, other_codepoints)
    ELSE FALSE

is_superset_of(codepoints, other_codepoints) ==
    is_subset_of(other_codepoints, codepoints)

(***************************************************************************)
(* The iterators of std::collections::HashSet.  hash_set_iter is iter():   *)
(* every item once, in an order the caller cannot rely on and that differs *)
(* from one set to another set of the same items (the hasher is seeded at  *)
(* random); hash_set_iter(codepoints) is the set of the sequences iter()   *)
(* may yield, and a caller draws one of them.  Difference walks the items  *)
(* of self and keeps those that other does not contain.  Intersection      *)
(* walks the smaller of the two sets and keeps the items the other one     *)
(* contains: HashSet::intersection walks self when                         *)
(* self.len() <= other.len() and walks other otherwise, so its items come  *)
(* in the order of the set it walks.                                       *)
(***************************************************************************)
hash_set_iter(codepoints) ==
    {items \in [1..Cardinality(codepoints) -> codepoints] :
        \A i, j \in DOMAIN items : i # j => items[i] # items[j]}

\* Intersection::next: the items of the walked set that the other set
\* contains.
RECURSIVE intersection_next(_, _)
intersection_next(walked, codepoints) ==
    IF walked = <<>> THEN <<>>
    ELSE IF Head(walked) \in codepoints
         THEN <<Head(walked)>> \o intersection_next(Tail(walked), codepoints)
         ELSE intersection_next(Tail(walked), codepoints)

\* What self.intersection(&other) yields; items and other_items are what
\* iter() yields for self and for other in this call.
iter_intersection(items, other_items) ==
    IF Len(items) <= Len(other_items)
    THEN intersection_next(items, CodePoints_new(other_items))
    ELSE intersection_next(other_items, CodePoints_new(items))

RECURSIVE iter_difference(_, _)
iter_difference(items, other_codepoints) ==
    IF items = <<>> THEN <<>>
    ELSE IF Head(items) \notin other_codepoints
         THEN <<Head(items)>> \o iter_difference(Tail(items), other_codepoints)
         ELSE iter_difference(Tail(items), other_codepoints)

(***************************************************************************)
(* CodePoints::intersection: the items of the Intersection iterator,       *)
(* collected into a new HashSet.  items and other_items are what iter()    *)
(* yields for self.codepoints and for other.codepoints in this call.       *)
(***************************************************************************)
\* Mutant: the Difference iterator is collected instead (.difference for
\* .intersection).
intersection_as_difference(items, other_items) ==
    CodePoints_new(iter_difference(items, CodePoints_new(other_items)))

intersection(items, other_items) ==
    CodePoints_new(iter_intersection(items, other_items))

(***************************************************************************)
(* CodePoints::difference: the items of the Difference iterator, collected *)
(* into a new HashSet.  items is what iter() yields for self.codepoints in *)
(* this call.                                                              *)
(***************************************************************************)
\* Mutant: the operands are swapped (other.difference(self)).
difference_swapped(items, other_codepoints) ==
    {cp \in other_codepoints : cp \notin CodePoints_new(items)}

difference(items, other_codepoints) ==
    CodePoints_new(iter_difference(items, other_codepoints))

(***************************************************************************)
(* CodePoints::symmetric_difference: HashSet::symmetric_difference is      *)
(* self.difference(other).chain(other.difference(self)); the chain is      *)
(* collected into the vector `diff`, given to CodePoints::new.  items and  *)
(* other_items are what iter() yields for self.codepoints and for          *)
(* other.codepoints in this call; the items of a set are the set the other *)
(* half of the chain tests membership in.                                  *)
(***************************************************************************)
\* Mutant: the second half of the chain is missing.
symmetric_difference_one_sided(items, other_items) ==
    LET diff == iter_difference(items, CodePoints_new(other_items))
    IN  CodePoints_new(diff)

symmetric_difference(items, other_items) ==
    LET diff == iter_difference(items, CodePoints_new(other_items))
                    \o iter_difference(other_items, CodePoints_new(items))
    IN  CodePoints_new(diff)

(***************************************************************************)
(* CodePoints::len and CodePoints::is_empty.                               *)
(***************************************************************************)
len(codepoints) == Cardinality(codepoints)

is_empty(codepoints) == len(codepoints) = 0

(***************************************************************************)
(* #[derive(PartialEq)]: the equality of the two HashSets, which compares  *)
(* the sizes and then looks every item of self up in other.                *)
(***************************************************************************)
eq(codepoints, other_codepoints) ==
    IF len(codepoints) # len(other_codepoints) THEN FALSE
    ELSE all_items_in(codepoints, other_codepoints)

(***************************************************************************)
(* impl Hash for CodePoints.  iter_items is what self.codepoints.iter()    *)
(* yields, collected into sorted_codepoints; the vector is sorted and      *)
(* hashed.  A Vec feeds the Hasher its length and then its elements, and   *)
(* the hash is a function of what the Hasher is fed: hash is that          *)
(* sequence.                                                               *)
(***************************************************************************)
RECURSIVE sort_insert(_, _)
sort_insert(sorted, v) ==
    IF sorted = <<>> THEN <<v>>
    ELSE IF v <= Head(sorted) THEN <<v>> \o sorted
    ELSE <<Head(sorted)>> \o sort_insert(Tail(sorted), v)

RECURSIVE sort(_)
sort(items) ==
    IF items = <<>> THEN <<>>
    ELSE sort_insert(sort(Tail(items)), Head(items))

\* Mutant: the items are hashed in iteration order, without the sort.
hash_unsorted(iter_items) ==
    LET sorted_codepoints == iter_items
    IN  <<Len(sorted_codepoints)>> \o sorted_codepoints

hash(iter_items) ==
    LET sorted_codepoints == sort(iter_items)
    IN  <<Len(sorted_codepoints)>> \o sorted_codepoints

(***************************************************************************)
(* The operands of a set-algebra call when it returns, as the pair         *)
(* <<self, other>>.  Both are borrowed (&self, other: &CodePoints): union  *)
(* extends a clone of self.codepoints, the other three collect the items   *)
(* of an iterator into a new HashSet.                                      *)
(***************************************************************************)
\* Mutant: union extends self.codepoints itself and returns a copy of it.
union_operands_in_place(codepoints, other_codepoints) ==
    <<extend(codepoints, other_codepoints), other_codepoints>>

union_operands(codepoints, other_codepoints) ==
    <<codepoints, other_codepoints>>

intersection_operands(codepoints, other_codepoints) ==
    <<codepoints, other_codepoints>>

difference_operands(codepoints, other_codepoints) ==
    <<codepoints, other_codepoints>>

symmetric_difference_operands(codepoints, other_codepoints) ==
    <<codepoints, other_codepoints>>

(***************************************************************************)
(* ValidationError::new.  The message is the triple                        *)
(*   << "invalid character '", ch, "' (U+HHHH) at position N" >>           *)
(* whose middle element is the scalar value of the character printed by    *)
(* the first {} of the format string; the rest is the formatted text.      *)
(***************************************************************************)
HexDigits == <<"0", "1", "2", "3", "4", "5", "6", "7",
               "8", "9", "A", "B", "C", "D", "E", "F">>

RECURSIVE fmt_upper_hex(_)
fmt_upper_hex(n) ==
    IF n < 16 THEN HexDigits[n + 1]
    ELSE fmt_upper_hex(n \div 16) \o HexDigits[(n % 16) + 1]

RECURSIVE zero_pad(_, _)
zero_pad(digits, width) ==
    IF Len(digits) >= width THEN digits ELSE zero_pad("0" \o digits, width)

RECURSIVE fmt_decimal(_)
fmt_decimal(n) ==
    IF n < 10 THEN HexDigits[n + 1]
    ELSE fmt_decimal(n \div 10) \o HexDigits[(n % 10) + 1]

\* char::from_u32: None for a surrogate (0xD800..=0xDFFF) and for a value
\* above 0x10FFFF.
char_from_u32(code_point) ==
    IF (code_point >= 55296 /\ code_point <= 57343) \/ code_point > 1114111
    THEN None
    ELSE Some(code_point)

\* Mutant: the code point is formatted with {:X}, without the width.
ValidationError_new_unpadded(code_point, position) ==
    LET ch == IF char_from_u32(code_point) = None THEN 65533
              ELSE char_from_u32(code_point)[1]
    IN  [code_point |-> code_point,
         position   |-> position,
         message    |-> <<"invalid character '", ch,
                          "' (U+" \o fmt_upper_hex(code_point)
                              \o ") at position " \o fmt_decimal(position)>>]

ValidationError_new(code_point, position) ==
    LET ch == IF char_from_u32(code_point) = None THEN 65533
              ELSE char_from_u32(code_point)[1]
    IN  [code_point |-> code_point,
         position   |-> position,
         message    |-> <<"invalid character '", ch,
                          "' (U+" \o zero_pad(fmt_upper_hex(code_point), 4)
                              \o ") at position " \o fmt_decimal(position)>>]

(***************************************************************************)
(* CodePoints::contains_char and CodePoints::validate are called by        *)
(* validation.rs and by the wrapper types but are not defined in the       *)
(* codepoints.rs at hand; they follow the specification (section 4.1).     *)
(***************************************************************************)
contains_char(codepoints, c) == c \in codepoints

validate(codepoints, s) ==
    IF contains(codepoints, s) THEN Ok
    ELSE LET r == first_excluded_with_position(codepoints, s)
         IN  Err(ValidationError_new(r[1][1], r[1][2]))

(***************************************************************************)
(* CodePoints::contains_all_in_any.  excluded_counts is the HashMap from   *)
(* code point to the number of sets of the list that exclude it; the loop  *)
(* over the list returns true at once when a set excludes nothing.         *)
(***************************************************************************)
RECURSIVE count_excluded(_, _, _)
count_excluded(excluded_counts, excluded, j) ==
    IF j > Len(excluded) THEN excluded_counts
    ELSE LET codepoint == excluded[j]
             entry == IF codepoint \in DOMAIN excluded_counts
                      THEN excluded_counts[codepoint] ELSE 0
         IN  count_excluded(
                 [k \in DOMAIN excluded_counts \cup {codepoint} |->
                     IF k = codepoint THEN entry + 1 ELSE excluded_counts[k]],
                 excluded, j + 1)

RECURSIVE for_each_codepoints(_, _, _, _)
for_each_codepoints(s, codepoints_list, k, excluded_counts) ==
    IF k > Len(codepoints_list)
    THEN [returned |-> FALSE, excluded_counts |-> excluded_counts]
    ELSE LET excluded == all_excluded(codepoints_list[k], s) IN
         IF excluded = <<>>
         THEN [returned |-> TRUE, excluded_counts |-> excluded_counts]
         ELSE for_each_codepoints(s, codepoints_list, k + 1,
                                  count_excluded(excluded_counts, excluded, 1))

\* Mutant: a character excluded by one set of the list is taken as excluded
\* by all of them (count >= 1 instead of count == codepoints_list.len()).
contains_all_in_any_count_any(s, codepoints_list) ==
    IF Len(codepoints_list) = 0 THEN FALSE
    ELSE LET r == for_each_codepoints(s, codepoints_list, 1, <<>>) IN
         IF r.returned THEN TRUE
         ELSE IF \E cp \in DOMAIN r.excluded_counts :
                     r.excluded_counts[cp] >= 1
              THEN FALSE
              ELSE TRUE

\* Mutant: the early return for the empty list is missing.
contains_all_in_any_no_empty_check(s, codepoints_list) ==
    LET r == for_each_codepoints(s, codepoints_list, 1, <<>>) IN
    IF r.returned THEN TRUE
    ELSE IF \E cp \in DOMAIN r.excluded_counts :
                r.excluded_counts[cp] = Len(codepoints_list)
         THEN FALSE
         ELSE TRUE

contains_all_in_any(s, codepoints_list) ==
    IF Len(codepoints_list) = 0 THEN FALSE
    ELSE LET r == for_each_codepoints(s, codepoints_list, 1, <<>>) IN
         IF r.returned THEN TRUE
         ELSE IF \E cp \in DOMAIN r.excluded_counts :
                     r.excluded_counts[cp] = Len(codepoints_list)
              THEN FALSE
              ELSE TRUE

(***************************************************************************)
(* validation::validate_all_in_any: the first character, left to right,    *)
(* that no set of the list contains gives the error.                       *)
(***************************************************************************)
RECURSIVE any_contains_char(_, _, _)
any_contains_char(sets, c, k) ==
    IF k > Len(sets) THEN FALSE
    ELSE IF contains_char(sets[k], c) THEN TRUE
    ELSE any_contains_char(sets, c, k + 1)

RECURSIVE validate_chars(_, _, _)
validate_chars(cs, sets, n) ==
    IF n > Len(cs) THEN Ok
    ELSE LET i == n - 1
             c == cs[n]
         IN  IF ~ any_contains_char(sets, c, 1)
             THEN Err(ValidationError_new(c, i))
             ELSE validate_chars(cs, sets, n + 1)

\* Mutant: a character must be in every set of the list (all instead of any).
validate_all_in_any_every_set(s, sets) ==
    LET cs == str_chars(s)
        bad == {n \in DOMAIN cs :
                   \E k \in DOMAIN sets : ~ contains_char(sets[k], cs[n])}
        n0 == CHOOSE n \in bad : \A m \in bad : n <= m
    IN  IF bad = {} THEN Ok ELSE Err(ValidationError_new(cs[n0], n0 - 1))

\* Mutant: an early return takes the empty list of sets as accepting
\* every text.
validate_all_in_any_empty_list_ok(s, sets) ==
    IF Len(sets) = 0 THEN Ok ELSE validate_chars(str_chars(s), sets, 1)

validate_all_in_any(s, sets) == validate_chars(str_chars(s), sets, 1)

(***************************************************************************)
(* The ASCII tables (src/src/data/ascii.rs; ALL_ASCII is generated by      *)
(* build.rs as the concatenation of the three others) and the allocating   *)
(* constructors of the well-known sets.                                    *)
(***************************************************************************)
CONTROL_CHARS == [i \in 1..33 |-> IF i <= 32 THEN i - 1 ELSE 127]

PRINTABLE_CHARS == [i \in 1..95 |-> 31 + i]

CRLF_CHARS == <<10, 13>>

\* Mutant: the merged table is written without the control table.
ALL_ASCII_without_control == PRINTABLE_CHARS \o CRLF_CHARS

ALL_ASCII == CONTROL_CHARS \o PRINTABLE_CHARS \o CRLF_CHARS

ascii_control == CodePoints_new(CONTROL_CHARS)

ascii_printable == CodePoints_new(PRINTABLE_CHARS)

crlf == CodePoints_new(CRLF_CHARS)

ascii_all == CodePoints_new(ALL_ASCII)

Accessors == {"ascii_control", "ascii_printable", "crlf", "ascii_all"}

\* the allocating constructor that corresponds to a cached accessor
constructor(accessor) ==
    CASE accessor = "ascii_control"   -> ascii_control
      [] accessor = "ascii_printable" -> ascii_printable
      [] accessor = "crlf"            -> crlf
      [] accessor = "ascii_all"       -> ascii_all

(***************************************************************************)
(* The cached accessors: ascii_control_cached, ascii_printable_cached,     *)
(* crlf_cached and ascii_all_cached.  Each owns a                          *)
(* static OnceLock<CodePoints> and returns                                 *)
(* CELL.get_or_init(|| Self::constructor()).                               *)
(*                                                                         *)
(* cached_closure is the value built by the closure the accessor gives to  *)
(* get_or_init.                                                            *)
(***************************************************************************)
\* Mutant: every accessor was copied from ascii_printable_cached and still
\* builds the printable set.
cached_closure_copied(accessor) == ascii_printable

cached_closure(accessor) ==
    CASE accessor = "ascii_control"   -> ascii_control
      [] accessor = "ascii_printable" -> ascii_printable
      [] accessor = "crlf"            -> crlf
      [] accessor = "ascii_all"       -> ascii_all

(***************************************************************************)
(* OnceLock::get_or_init, as the steps of a calling thread:                *)
(*   get        the fast path: the value is returned if the Once is        *)
(*              complete                                                   *)
(*   call_once  Once::call: the thread that finds the Once incomplete      *)
(*              marks it running and runs the closure; a thread that       *)
(*              finds it running waits; a thread that finds it complete    *)
(*              goes on                                                    *)
(*   closure    the closure builds the value                               *)
(*   write      the value is moved into the slot of the cell               *)
(*   finish     the Once is marked complete and the waiters are woken      *)
(*   return     a reference to the value in the slot is returned           *)
(* once_call is what Once::call does with the state it finds.              *)
(***************************************************************************)
\* Mutant: a running initialisation does not keep other threads out (the
\* state is only tested for completion).
once_call_no_exclusion(state) ==
    CASE state = "incomplete" -> "run"
      [] state = "running"    -> "run"
      [] state = "complete"   -> "done"

\* Mutant: a thread that waits in Once::call is not woken when the
\* initialisation completes.
once_call_lost_wakeup(state) ==
    CASE state = "incomplete" -> "run"
      [] state = "running"    -> "wait"
      [] state = "complete"   -> "wait"

\* Mutant: a thread that finds the initialisation running does not wait for
\* it and goes on as if it were complete.
once_call_no_wait(state) ==
    CASE state = "incomplete" -> "run"
      [] state = "running"    -> "done"
      [] state = "complete"   -> "done"

once_call(state) ==
    CASE state = "incomplete" -> "run"
      [] state = "running"    -> "wait"
      [] state = "complete"   -> "done"

\* OnceLock::get_unchecked: the value the reference points to.  The slot is
\* read only when the Once is complete; an empty slot reads as no instance.
get_unchecked(cell_slot) ==
    IF cell_slot = None THEN [instance |-> 0, value |-> {}]
    ELSE cell_slot[1]

(***************************************************************************)
(* The machine.  Every function of the library is pure, so a behaviour is  *)
(* one call: Init draws the arguments and one action applies a function    *)
(* to them and stores what it returns.                                     *)
(*   kind   which arguments were drawn: "single" (a set and a text),       *)
(*          "binary" (two sets), "multi" (a text and a list of sets),      *)
(*          "construct" (two sets built from two vectors), "ascii" (none:  *)
(*          the constructors of the well-known sets take no argument),     *)
(*          "error" (a code point and a position) or "example" (the text   *)
(*          and the list of the multi-set example)                         *)
(*   self, other   the receiver and the argument of a set operation        *)
(*   chars  the scalar values of the text                                  *)
(*   text   the text as the callee receives it (UTF-8)                     *)
(*   list   the list of sets of a multi-set call                           *)
(*   vecs   the two vectors self and other were constructed from by        *)
(*          CodePoints::new, for the kind "construct"                      *)
(*   args   the numbers <<code_point, position>> given to                  *)
(*          ValidationError::new, for the kind "error"                     *)
(*   op     "init" before the call, then the name of the function called   *)
(*   ret    the value returned                                             *)
(***************************************************************************)
Sets  == SUBSET Universe
Texts == UNION {[1..n -> Universe] : n \in 0..MaxLen}
Lists == UNION {[1..n -> Sets] : n \in 0..MaxList}
Vecs  == UNION {[1..n -> Universe] : n \in 0..MaxVec}

InitSingle ==
    /\ kind = "single"
    /\ self \in Sets
    /\ other = {}
    /\ chars \in Texts
    /\ list = <<>>
    /\ vecs = <<>>
    /\ args = <<>>

InitBinary ==
    /\ kind = "binary"
    /\ self \in Sets
    /\ other \in Sets
    /\ chars = <<>>
    /\ list = <<>>
    /\ vecs = <<>>
    /\ args = <<>>

InitMulti ==
    /\ kind = "multi"
    /\ self = {}
    /\ other = {}
    /\ chars \in Texts
    /\ list \in Lists
    /\ vecs = <<>>
    /\ args = <<>>

\* Two sets constructed by CodePoints::new from two vectors of code points.
InitConstruct ==
    /\ kind = "construct"
    /\ vecs \in Vecs \X Vecs
    /\ self = CodePoints_new(vecs[1])
    /\ other = CodePoints_new(vecs[2])
    /\ chars = <<>>
    /\ list = <<>>
    /\ args = <<>>

\* The constructors of the well-known ASCII sets take no argument.
InitAscii ==
    /\ kind = "ascii"
    /\ self = {}
    /\ other = {}
    /\ chars = <<>>
    /\ list = <<>>
    /\ vecs = <<>>
    /\ args = <<>>

\* The u32 values given to ValidationError::new: scalar values of one to
\* six hexadecimal digits, the two ends of the surrogate range and the first
\* value above the last scalar value.
CodePointArgs ==
    {0, 65, 2748, 12354, 55296, 57343, 65535, 65536, 131083, 1114111, 1114112}

InitError ==
    /\ kind = "error"
    /\ self = {}
    /\ other = {}
    /\ chars = <<>>
    /\ list = <<>>
    /\ vecs = <<>>
    /\ args \in CodePointArgs \X (0..MaxPos)

\* The arguments of the multi-set example: the texts "Hello012" and
\* "Hello789", and the list of the printable ASCII set and the set of the
\* digits 0, 1 and 2.
Hello012 == <<72, 101, 108, 108, 111, 48, 49, 50>>

Hello789 == <<72, 101, 108, 108, 111, 55, 56, 57>>

InitExample ==
    /\ kind = "example"
    /\ self = {}
    /\ other = {}
    /\ chars \in {Hello012, Hello789}
    /\ list = <<ascii_printable, CodePoints_new(<<48, 49, 50>>)>>
    /\ vecs = <<>>
    /\ args = <<>>

Threads == 1..NThreads

\* The cell of the accessor before its first use, no thread inside a call.
CacheUninitialized ==
    /\ once = "incomplete"
    /\ slot = None
    /\ pc = [t \in Threads |-> "idle"]
    /\ path = [t \in Threads |-> "none"]
    /\ local = [t \in Threads |-> None]
    /\ calls = [t \in Threads |-> 0]
    /\ constructions = 0
    /\ got = [t \in Threads |-> <<>>]

Init ==
    /\ \/ InitSingle
       \/ InitBinary
       \/ InitMulti
       \/ InitConstruct
       \/ InitAscii
       \/ InitError
       \/ InitExample
    /\ text = Utf8(chars)
    /\ op = "init"
    /\ ret = None
    /\ which = "none"
    /\ CacheUninitialized

Call(k, name, value) ==
    /\ kind = k
    /\ op = "init"
    /\ op' = name
    /\ ret' = value
    /\ UNCHANGED <<kind, self, other, chars, text, list, vecs, args, cacheVars>>

Contains == Call("single", "contains", contains(self, text))

FirstExcludedWithPosition ==
    Call("single", "first_excluded_with_position",
         first_excluded_with_position(self, text))

FirstExcluded == Call("single", "first_excluded", first_excluded(self, text))

AllExcluded == Call("single", "all_excluded", all_excluded(self, text))

Validate == Call("single", "validate", validate(self, text))

FromString == Call("single", "from_string", from_string(text))

Eq == Call("construct", "eq", eq(self, other))

Hash ==
    \E iter_items \in hash_set_iter(self) :
        Call("construct", "hash", hash(iter_items))

Len_ == Call("construct", "len", len(self))

\* A set-algebra call: the value returned and the operands it leaves.
CallAlgebra(name, value, operands) ==
    /\ kind = "binary"
    /\ op = "init"
    /\ op' = name
    /\ ret' = value
    /\ self' = operands[1]
    /\ other' = operands[2]
    /\ UNCHANGED <<kind, chars, text, list, vecs, args, cacheVars>>

Union == CallAlgebra("union", union(self, other), union_operands(self, other))

Intersection ==
    \E items \in hash_set_iter(self) :
        \E other_items \in hash_set_iter(other) :
            CallAlgebra("intersection", intersection(items, other_items),
                        intersection_operands(self, other))

Difference ==
    \E items \in hash_set_iter(self) :
        CallAlgebra("difference", difference(items, other),
                    difference_operands(self, other))

SymmetricDifference ==
    \E items \in hash_set_iter(self) :
        \E other_items \in hash_set_iter(other) :
            CallAlgebra("symmetric_difference",
                        symmetric_difference(items, other_items),
                        symmetric_difference_operands(self, other))

IsSubsetOf == Call("binary", "is_subset_of", is_subset_of(self, other))

IsSupersetOf == Call("binary", "is_superset_of", is_superset_of(self, other))

\* The caller takes the value returned; the sets remain and the next call
\* can be made on them.
Return ==
    /\ op # "init"
    /\ op' = "init"
    /\ ret' = None
    /\ UNCHANGED <<kind, self, other, chars, text, list, vecs, args, cacheVars>>

ContainsAllInAny ==
    \E k \in {"multi", "example"} :
        Call(k, "contains_all_in_any", contains_all_in_any(text, list))

ValidateAllInAny ==
    Call("multi", "validate_all_in_any", validate_all_in_any(text, list))

AsciiControl == Call("ascii", "ascii_control", ascii_control)

AsciiPrintable == Call("ascii", "ascii_printable", ascii_printable)

Crlf == Call("ascii", "crlf", crlf)

AsciiAll == Call("ascii", "ascii_all", ascii_all)

NewValidationError ==
    Call("error", "ValidationError::new", ValidationError_new(args[1], args[2]))

Next ==
    \/ Contains
    \/ FirstExcludedWithPosition
    \/ FirstExcluded
    \/ AllExcluded
    \/ Validate
    \/ FromString
    \/ Eq
    \/ Hash
    \/ Len_
    \/ Union
    \/ Intersection
    \/ Difference
    \/ SymmetricDifference
    \/ IsSubsetOf
    \/ IsSupersetOf
    \/ Return
    \/ ContainsAllInAny
    \/ ValidateAllInAny
    \/ AsciiControl
    \/ AsciiPrintable
    \/ Crlf
    \/ AsciiAll
    \/ NewValidationError

Spec == Init /\ [][Next]_vars

(***************************************************************************)
(* The machine of the cached accessors.  One accessor is under test in a   *)
(* behaviour (each has a static cell of its own); every thread calls it up *)
(* to MaxCalls times, the steps of the threads interleaved.                *)
(*   which   the accessor                                                  *)
(*   once    state of the Once of its cell                                 *)
(*   slot    the slot of the cell: None, or Some of the instance stored.   *)
(*           An instance is [instance |-> n, value |-> set], n the run of  *)
(*           the constructor that built it                                 *)
(*   pc      where each thread is in get_or_init, "idle" between calls     *)
(*   path    how the current call of each thread went: "fast" (the fast    *)
(*           path), "slow" (through Once::call without running the         *)
(*           closure) or "init" (it ran the closure)                       *)
(*   local   the value a thread has built and not yet stored               *)
(*   calls   the calls each thread has completed                           *)
(*   constructions   the runs of the constructor so far                    *)
(*   got     for each thread the references its calls returned: the        *)
(*           instance referred to, its value when the call returned and    *)
(*           the path of the call                                          *)
(***************************************************************************)
pureVars == <<kind, self, other, chars, text, list, vecs, args, op, ret>>

InitCache ==
    /\ kind = "cached"
    /\ self = {}
    /\ other = {}
    /\ chars = <<>>
    /\ text = <<>>
    /\ list = <<>>
    /\ vecs = <<>>
    /\ args = <<>>
    /\ op = "init"
    /\ ret = None
    /\ which \in Accessors
    /\ CacheUninitialized

CallCached(t) ==
    /\ pc[t] = "idle"
    /\ calls[t] < MaxCalls
    /\ pc' = [pc EXCEPT ![t] = "get"]
    /\ path' = [path EXCEPT ![t] = "fast"]
    /\ UNCHANGED <<pureVars, which, once, slot, local, calls, constructions, got>>

Get(t) ==
    /\ pc[t] = "get"
    /\ IF once = "complete"
       THEN /\ pc' = [pc EXCEPT ![t] = "return"]
            /\ path' = path
       ELSE /\ pc' = [pc EXCEPT ![t] = "call_once"]
            /\ path' = [path EXCEPT ![t] = "slow"]
    /\ UNCHANGED <<pureVars, which, once, slot, local, calls, constructions, got>>

CallOnceRun(t) ==
    /\ pc[t] = "call_once"
    /\ once_call(once) = "run"
    /\ once' = "running"
    /\ pc' = [pc EXCEPT ![t] = "closure"]
    /\ path' = [path EXCEPT ![t] = "init"]
    /\ UNCHANGED <<pureVars, which, slot, local, calls, constructions, got>>

\* A thread that finds the Once running has no step: it waits.
CallOnceDone(t) ==
    /\ pc[t] = "call_once"
    /\ once_call(once) = "done"
    /\ pc' = [pc EXCEPT ![t] = "return"]
    /\ UNCHANGED <<pureVars, which, once, slot, path, local, calls,
                   constructions, got>>

Closure(t) ==
    /\ pc[t] = "closure"
    /\ local' = [local EXCEPT ![t] =
                    Some([instance |-> constructions + 1,
                          value |-> cached_closure(which)])]
    /\ constructions' = constructions + 1
    /\ pc' = [pc EXCEPT ![t] = "write"]
    /\ UNCHANGED <<pureVars, which, once, slot, path, calls, got>>

Write(t) ==
    /\ pc[t] = "write"
    /\ slot' = local[t]
    /\ local' = [local EXCEPT ![t] = None]
    /\ pc' = [pc EXCEPT ![t] = "finish"]
    /\ UNCHANGED <<pureVars, which, once, path, calls, constructions, got>>

Finish(t) ==
    /\ pc[t] = "finish"
    /\ once' = "complete"
    /\ pc' = [pc EXCEPT ![t] = "return"]
    /\ UNCHANGED <<pureVars, which, slot, path, local, calls, constructions, got>>

ReturnRef(t) ==
    /\ pc[t] = "return"
    /\ got' = [got EXCEPT ![t] =
                  Append(@, [instance |-> get_unchecked(slot).instance,
                             value    |-> get_unchecked(slot).value,
                             path     |-> path[t]])]
    /\ calls' = [calls EXCEPT ![t] = @ + 1]
    /\ pc' = [pc EXCEPT ![t] = "idle"]
    /\ UNCHANGED <<pureVars, which, once, slot, path, local, constructions>>

NextCache ==
    \E t \in Threads :
        \/ CallCached(t)
        \/ Get(t)
        \/ CallOnceRun(t)
        \/ CallOnceDone(t)
        \/ Closure(t)
        \/ Write(t)
        \/ Finish(t)
        \/ ReturnRef(t)

SpecCache == InitCache /\ [][NextCache]_vars

\* The steps of a thread inside get_or_init.  A thread that has entered the
\* call is scheduled again and again until it returns; a thread between
\* calls need not call again.
InCall(t) ==
    \/ Get(t)
    \/ CallOnceRun(t)
    \/ CallOnceDone(t)
    \/ Closure(t)
    \/ Write(t)
    \/ Finish(t)
    \/ ReturnRef(t)

FairSpecCache == SpecCache /\ \A t \in Threads : WF_vars(InCall(t))

(***************************************************************************)
(* What the claims speak about, stated over the scalar values of the text  *)
(* (chars) and not over what the functions compute.                        *)
(***************************************************************************)
Range(f) == {f[i] : i \in DOMAIN f}

\* 1-based indices of the characters of the text that are not in self
ExcludedIdx == {i \in DOMAIN chars : chars[i] \notin self}

\* 1-based indices of the characters that no set of the list contains
UncoveredIdx ==
    {i \in DOMAIN chars : \A k \in DOMAIN list : chars[i] \notin list[k]}

Least(I) == CHOOSE i \in I : \A j \in I : i <= j

\* 1-based index of the first occurrence of c in the text
FirstOccurrence(c) == Least({i \in DOMAIN chars : chars[i] = c})

\* C1: S.contains(s) is true exactly when every scalar value of s is a
\* member of S; S.contains("") is true for every S, and the empty set
\* accepts the empty text and no other text.
C1_ContainsAllMembers ==
    op = "contains" =>
        /\ ret = (\A i \in DOMAIN chars : chars[i] \in self)
        /\ (chars = <<>> => ret = TRUE)
        /\ (self = {} => (ret = TRUE <=> chars = <<>>))

\* a text of several characters is rejected although its first character
\* is a member
C1_Witness ==
    /\ op = "contains"
    /\ Len(chars) >= 2
    /\ chars[1] \in self
    /\ ret = FALSE

\* C2: first_excluded_with_position(s) is Some((c, i)) with i the smallest
\* 0-based character index whose scalar value is not in S and c the value at
\* that index, and None exactly when every character is a member;
\* first_excluded(s) is the same result without the position.
C2_FirstExcluded ==
    /\ op = "first_excluded_with_position" =>
           IF ExcludedIdx = {} THEN ret = None
           ELSE /\ ret = Some(<<chars[Least(ExcludedIdx)],
                                Least(ExcludedIdx) - 1>>)
                /\ \A j \in 1..ret[1][2] : chars[j] \in self
    /\ op = "first_excluded" =>
           IF ExcludedIdx = {} THEN ret = None
           ELSE ret = Some(chars[Least(ExcludedIdx)])

\* the first excluded character comes after a member that takes several
\* bytes
C2_Witness ==
    /\ op = "first_excluded_with_position"
    /\ ret # None
    /\ ret[1][2] >= 1
    /\ chars[1] > 127

\* C3: all_excluded(s) holds each scalar value of s that is not in S exactly
\* once and nothing else, in the order of first occurrence in s; it is empty
\* when s is empty or has no excluded character.
C3_AllExcluded ==
    op = "all_excluded" =>
        /\ Range(ret) = {chars[i] : i \in ExcludedIdx}
        /\ \A i, j \in DOMAIN ret : i # j => ret[i] # ret[j]
        /\ \A i, j \in DOMAIN ret :
               i < j => FirstOccurrence(ret[i]) < FirstOccurrence(ret[j])
        /\ (ExcludedIdx = {} => ret = <<>>)

\* an excluded character is repeated around another excluded character
C3_Witness ==
    /\ op = "all_excluded"
    /\ Len(chars) >= 3
    /\ chars[1] = chars[3]
    /\ chars[1] \notin self
    /\ Len(ret) = 2

\* C4: S.validate(s) is Ok exactly when S.contains(s); otherwise it is an Err
\* whose code_point and position are the pair of
\* S.first_excluded_with_position(s): the first non-member character and its
\* 0-based character index.
C4_Validate ==
    op = "validate" =>
        /\ ret.ok = contains(self, text)
        /\ IF ExcludedIdx = {} THEN ret = Ok
           ELSE /\ ~ ret.ok
                /\ <<ret.err.code_point, ret.err.position>>
                       = first_excluded_with_position(self, text)[1]
                /\ ret.err.code_point = chars[Least(ExcludedIdx)]
                /\ ret.err.position = Least(ExcludedIdx) - 1

\* validation fails on a character that is not the first one
C4_Witness ==
    /\ op = "validate"
    /\ ~ ret.ok
    /\ ret.err.position >= 1
    /\ chars[1] > 127

\* C5: for a non-empty list L, contains_all_in_any(s, L) is true exactly
\* when every character of s is a member of at least one set of L; it is
\* true for the empty text, and a text whose characters are split across
\* the sets is accepted even when no single set accepts it.
C5_ContainsAllInAny ==
    (op = "contains_all_in_any" /\ list # <<>>) =>
        /\ ret = (\A i \in DOMAIN chars :
                      \E k \in DOMAIN list : chars[i] \in list[k])
        /\ (chars = <<>> => ret = TRUE)

\* the text is accepted and no single set of the list accepts it
C5_Witness ==
    /\ op = "contains_all_in_any"
    /\ ret = TRUE
    /\ \A k \in DOMAIN list : \E i \in DOMAIN chars : chars[i] \notin list[k]
    /\ Len(list) >= 2

\* C6: contains_all_in_any(s, L) is false whenever L is empty, for every
\* text s, the empty text included.
C6_EmptyListIsFalse ==
    (op = "contains_all_in_any" /\ list = <<>>) => ret = FALSE

\* the empty text with the empty list
C6_Witness ==
    /\ op = "contains_all_in_any"
    /\ list = <<>>
    /\ chars = <<>>
    /\ ret = FALSE

\* C7: validate_all_in_any(s, L) is Ok when every character of s is a member
\* of at least one set of L; otherwise it is an Err whose position is the
\* smallest 0-based index of a character that no set contains and whose
\* code_point is the scalar value at that index.
C7_ValidateAllInAny ==
    op = "validate_all_in_any" =>
        IF UncoveredIdx = {} THEN ret = Ok
        ELSE /\ ~ ret.ok
             /\ ret.err.position = Least(UncoveredIdx) - 1
             /\ ret.err.code_point = chars[Least(UncoveredIdx)]

\* the error is on a later character, the earlier ones being covered by
\* different sets
C7_Witness ==
    /\ op = "validate_all_in_any"
    /\ ~ ret.ok
    /\ ret.err.position >= 2
    /\ Len(list) >= 2
    /\ \A k \in DOMAIN list : chars[1] \notin list[k] \/ chars[2] \notin list[k]

\* C8: validate_all_in_any is Ok for the empty text with any list of sets,
\* the empty list included, and is an Err for every non-empty text when the
\* list is empty, the error naming the first character at position 0.
C8_ValidateAllInAnyEmpty ==
    op = "validate_all_in_any" =>
        /\ (chars = <<>> => ret = Ok)
        /\ (list = <<>> /\ chars # <<>> =>
               /\ ~ ret.ok
               /\ ret.err.position = 0
               /\ ret.err.code_point = chars[1])

\* a non-empty text with the empty list is refused
C8_Witness ==
    /\ op = "validate_all_in_any"
    /\ list = <<>>
    /\ chars # <<>>
    /\ ~ ret.ok

\* C9: S.contains(s) is true if and only if S.first_excluded(s) is None.
C9_ContainsIffNoFirstExcluded ==
    /\ op = "contains" => (ret = TRUE <=> first_excluded(self, text) = None)
    /\ op = "first_excluded" => (ret = None <=> contains(self, text))

\* a non-empty text with no excluded character
C9_Witness ==
    /\ op = "first_excluded"
    /\ ret = None
    /\ chars # <<>>
    /\ \E i \in DOMAIN chars : chars[i] > 127

\* C10: S.union(T) contains a code point exactly when S or T contains it, so
\* that S.union(T) is a superset of S and a superset of T.
C10_Union ==
    op = "union" =>
        /\ \A cp \in Universe \cup ret : cp \in ret <=> (cp \in self \/ cp \in other)
        /\ is_superset_of(ret, self)
        /\ is_superset_of(ret, other)

\* the operands overlap and each has a member the other lacks
C10_Witness ==
    /\ op = "union"
    /\ self \ other # {}
    /\ other \ self # {}
    /\ self \cap other # {}

\* C11: S.intersection(T) contains a code point exactly when both S and T
\* contain it, so that it is a subset of S and a subset of T, and it is empty
\* when either operand is empty.
C11_Intersection ==
    op = "intersection" =>
        /\ \A cp \in Universe \cup ret :
               cp \in ret <=> (cp \in self /\ cp \in other)
        /\ is_subset_of(ret, self)
        /\ is_subset_of(ret, other)
        /\ (self = {} \/ other = {} => is_empty(ret))

\* the intersection is a proper, non-empty part of both operands
C11_Witness ==
    /\ op = "intersection"
    /\ ret # {}
    /\ ret # self
    /\ ret # other

\* C12: S.difference(T) contains a code point exactly when S contains it and
\* T does not, so that S.difference(T).intersection(T) is empty.
C12_Difference ==
    op = "difference" =>
        /\ \A cp \in Universe \cup ret :
               cp \in ret <=> (cp \in self /\ cp \notin other)
        /\ \A items \in hash_set_iter(ret) :
               \A other_items \in hash_set_iter(other) :
                   is_empty(intersection(items, other_items))

\* the difference removes something and keeps something
C12_Witness ==
    /\ op = "difference"
    /\ ret # {}
    /\ ret # self
    /\ other \ self # {}

\* C13: S.symmetric_difference(T) equals
\* S.union(T).difference(S.intersection(T)): exactly the code points that are
\* in one of the two sets and not in both.
C13_SymmetricDifference ==
    op = "symmetric_difference" =>
        /\ \A items \in hash_set_iter(self) :
               \A other_items \in hash_set_iter(other) :
                   \A union_items \in hash_set_iter(union(self, other)) :
                       ret = difference(union_items,
                                        intersection(items, other_items))
        /\ \A cp \in Universe \cup ret :
               cp \in ret <=> ((cp \in self) # (cp \in other))

\* each operand has a member of its own and they share one
C13_Witness ==
    /\ op = "symmetric_difference"
    /\ self \ other # {}
    /\ other \ self # {}
    /\ self \cap other # {}
    /\ ret # {}

\* C14: S.union(S) equals S and S.intersection(S) equals S.
C14_Idempotence ==
    (op \in {"union", "intersection"} /\ other = self) => ret = self

\* a set of several members intersected with itself
C14_Witness ==
    /\ op = "intersection"
    /\ other = self
    /\ Cardinality(self) >= 2
    /\ ret = self

\* C15: union, intersection, difference and symmetric_difference return a
\* new set and leave both operands unchanged: through any sequence of
\* set-algebra and query calls every set keeps the members it was
\* constructed with.
C15_OperandsUnchanged ==
    [][self' = self /\ other' = other /\ list' = list]_vars

\* a set-algebra call has returned a set that is neither of its operands
C15_Witness ==
    /\ op \in {"union", "intersection", "difference", "symmetric_difference"}
    /\ ret # self
    /\ ret # other
    /\ self # {}
    /\ other # {}

\* C16: S.is_subset_of(T) is true exactly when every member of S is a member
\* of T, and S.is_superset_of(T) exactly when T.is_subset_of(S); both are
\* inclusive: S.is_subset_of(S) and S.is_superset_of(S) hold.
C16_SubsetSuperset ==
    /\ op = "is_subset_of" =>
           /\ ret = (\A cp \in self : cp \in other)
           /\ (self = other => ret = TRUE)
    /\ op = "is_superset_of" =>
           /\ ret = is_subset_of(other, self)
           /\ ret = (\A cp \in other : cp \in self)
           /\ (self = other => ret = TRUE)

\* a non-empty set tested against itself
C16_Witness ==
    /\ op = "is_subset_of"
    /\ self = other
    /\ self # {}
    /\ ret = TRUE

\* C17: two sets constructed from inputs that hold the same distinct code
\* points are equal and produce the same hash, whatever the order of the
\* input and whatever duplicates it holds; len() of a constructed set is the
\* number of distinct code points of its input.
C17_EqualAndHashEqual ==
    /\ (kind = "construct" /\ Range(vecs[1]) = Range(vecs[2])) =>
           /\ op = "eq" => ret = TRUE
           /\ op = "hash" =>
                  \A other_items \in hash_set_iter(other) :
                      ret = hash(other_items)
    /\ (kind = "construct" /\ op = "len") =>
           ret = Cardinality(Range(vecs[1]))
    /\ op = "from_string" => len(ret) = Cardinality(Range(chars))

\* the two inputs differ in order and in duplicates and hold several values
C17_Witness ==
    /\ op = "hash"
    /\ Range(vecs[1]) = Range(vecs[2])
    /\ Len(vecs[1]) # Len(vecs[2])
    /\ Cardinality(self) >= 2
    /\ vecs[1][1] # vecs[2][1]

\* the text has a character outside the Basic Multilingual Plane
HasNonBmp == \E i \in DOMAIN chars : chars[i] > 65535

\* C18: a character outside the Basic Multilingual Plane counts as one
\* scalar value and one position in from_string, contains,
\* first_excluded_with_position and all_excluded: a reported position is the
\* number of characters before the offending one, never a byte or code-unit
\* offset, and such a character is never reported as two values.
C18_NonBmpIsOneCharacter ==
    HasNonBmp =>
        /\ op = "from_string" => ret = Range(chars)
        /\ op = "contains" => ret = (\A i \in DOMAIN chars : chars[i] \in self)
        /\ (op = "first_excluded_with_position" /\ ret # None) =>
               /\ ret[1][2] < Len(chars)
               /\ chars[ret[1][2] + 1] = ret[1][1]
               /\ ret[1][2] = Cardinality({j \in DOMAIN chars :
                                              j < Least(ExcludedIdx)})
        /\ op = "all_excluded" =>
               /\ Range(ret) \subseteq Range(chars)
               /\ Len(ret) = Cardinality({chars[i] : i \in ExcludedIdx})

\* the offending character comes right after a member outside the BMP
C18_Witness ==
    /\ op = "first_excluded_with_position"
    /\ Len(chars) >= 2
    /\ chars[1] > 65535
    /\ ret # None
    /\ ret[1][2] = 1

\* the references returned so far, by every thread
AllGot == UNION {Range(got[t]) : t \in Threads}

\* C19: every call of a cached accessor returns a reference to the same
\* instance as every earlier and later call for that set; that instance is
\* equal in value to the set of the corresponding allocating constructor,
\* and once returned it never changes.
C19_CachedSameInstance ==
    \A r \in AllGot :
        /\ \A q \in AllGot : q.instance = r.instance
        /\ r.value = constructor(which)
        /\ slot = Some([instance |-> r.instance, value |-> r.value])

\* one thread has received the reference twice and another thread once
C19_Witness ==
    \E t, u \in Threads :
        /\ t # u
        /\ Len(got[t]) >= 2
        /\ Len(got[u]) >= 1

\* C20: when several threads call the same cached accessor concurrently
\* before the singleton is initialised, the set is constructed exactly once
\* in every interleaving and every caller receives the same instance.
C20_ConstructedOnce ==
    /\ constructions <= 1
    /\ (once = "complete" => constructions = 1)
    /\ \A r \in AllGot : r.instance = 1 /\ constructions = 1

\* two threads raced for the first access: one ran the constructor, the
\* other went through Once::call without running it, and both have returned
C20_Witness ==
    \E t, u \in Threads :
        /\ got[t] # <<>> /\ got[t][1].path = "init"
        /\ got[u] # <<>> /\ got[u][1].path = "slow"

(***************************************************************************)
(* C21.  The set ascii_all returns is the union of the control and the     *)
(* printable sets and has exactly the 128 members U+0000..U+007F, although *)
(* the generated table ALL_ASCII it is built from has 130 entries: it is   *)
(* the control, printable and CRLF tables one after the other, so LF and   *)
(* CR are listed twice.  The control and the printable sets are disjoint.  *)
(***************************************************************************)
C21_AsciiAll ==
    /\ op = "ascii_all" =>
          /\ ret = ascii_control \cup ascii_printable
          /\ ret = 0..127
          /\ Cardinality(ret) = 128
          /\ Len(ALL_ASCII) = 130
          /\ \A c \in {10, 13} :
                Cardinality({i \in DOMAIN ALL_ASCII : ALL_ASCII[i] = c}) = 2
    /\ op = "ascii_control" =>
          \A c \in ret : c \notin ascii_printable
    /\ op = "ascii_printable" =>
          \A c \in ret : c \notin ascii_control

\* ascii_all has returned a set smaller than the table it was built from.
C21_Witness ==
    /\ op = "ascii_all"
    /\ {0, 10, 13, 32, 126, 127} \subseteq ret
    /\ Len(ALL_ASCII) > Cardinality(ret)

\* The upper-case hexadecimal text of a code point, at least four digits.
ExpectedHex(cp) ==
    CASE cp = 0       -> "0000"
      [] cp = 65      -> "0041"
      [] cp = 2748    -> "0ABC"
      [] cp = 12354   -> "3042"
      [] cp = 55296   -> "D800"
      [] cp = 57343   -> "DFFF"
      [] cp = 65535   -> "FFFF"
      [] cp = 65536   -> "10000"
      [] cp = 131083  -> "2000B"
      [] cp = 1114111 -> "10FFFF"
      [] cp = 1114112 -> "110000"

\* The decimal text of the positions 0, 1, 2, ...
ExpectedDecimal ==
    <<"0", "1", "2", "3", "4", "5", "6", "7", "8", "9",
      "10", "11", "12", "13", "14", "15">>

\* The code points that are Unicode scalar values.
IsScalarValue(cp) ==
    (0 <= cp /\ cp <= 55295) \/ (57344 <= cp /\ cp <= 1114111)

(***************************************************************************)
(* C22.  ValidationError::new(cp, pos) stores cp and pos unchanged and     *)
(* builds the message "invalid character '<ch>' (U+<HEX>) at position      *)
(* <pos>": HEX is cp in upper-case hexadecimal, zero-padded to at least    *)
(* four digits (more when cp is above 0xFFFF), pos is in decimal, and ch   *)
(* is the character of cp, or U+FFFD when cp is not a scalar value (a      *)
(* surrogate or a value above 0x10FFFF).                                   *)
(***************************************************************************)
C22_ValidationErrorNew ==
    op = "ValidationError::new" =>
        LET cp  == args[1]
            pos == args[2]
        IN  /\ ret.code_point = cp
            /\ ret.position = pos
            /\ ret.message =
                  <<"invalid character '",
                    IF IsScalarValue(cp) THEN cp ELSE 65533,
                    "' (U+" \o ExpectedHex(cp) \o ") at position "
                           \o ExpectedDecimal[pos + 1]>>

\* An error was built for a surrogate at a position of two digits.
C22_Witness ==
    /\ op = "ValidationError::new"
    /\ args[1] = 55296
    /\ args[2] >= 10
    /\ ret.code_point = 55296
    /\ ret.message[2] = 65533

(***************************************************************************)
(* C23.  contains_all_in_any(s, L) is true exactly when                    *)
(* validate_all_in_any(s, L) is Ok, with one exception: for the empty text *)
(* and the empty list the boolean function returns false and the           *)
(* validating function returns Ok.                                         *)
(***************************************************************************)
C23_BooleanAgreesWithValidating ==
    /\ op = "contains_all_in_any" =>
          IF chars = <<>> /\ list = <<>>
          THEN ret = FALSE /\ validate_all_in_any(text, list) = Ok
          ELSE ret = validate_all_in_any(text, list).ok
    /\ op = "validate_all_in_any" =>
          IF chars = <<>> /\ list = <<>>
          THEN ret = Ok /\ contains_all_in_any(text, list) = FALSE
          ELSE ret.ok = contains_all_in_any(text, list)

\* the empty text was validated against the empty list, which the boolean
\* function refuses
C23_Witness ==
    /\ op = "validate_all_in_any"
    /\ chars = <<>>
    /\ list = <<>>
    /\ ret = Ok
    /\ ~ contains_all_in_any(text, list)

(***************************************************************************)
(* C24.  No caller of a cached accessor receives a reference before the    *)
(* construction has completed: a thread that did not run the constructor   *)
(* goes on only after the constructing thread has stored its result and    *)
(* completed the Once, so the set a caller observes is the complete set,   *)
(* never an empty or a partly built one.                                   *)
(***************************************************************************)
C24_NoReferenceBeforeCompletion ==
    /\ \A t \in Threads :
          pc[t] = "return" =>
              /\ once = "complete"
              /\ slot # None
              /\ get_unchecked(slot).value = constructor(which)
    /\ \A u \in Threads :
          pc[u] \in {"closure", "write", "finish"} =>
              /\ AllGot = {}
              /\ \A t \in Threads : t # u => pc[t] # "return"
    /\ \A r \in AllGot :
          /\ r.instance # 0
          /\ r.value # {}
          /\ Cardinality(r.value) = Cardinality(constructor(which))

\* a thread that entered Once::call during the first initialisation and did
\* not run the closure is about to receive its first reference, the value
\* stored by the thread that ran it
C24_Witness ==
    \E t, u \in Threads :
        /\ t # u
        /\ pc[t] = "return"
        /\ path[t] = "slow"
        /\ got[t] = <<>>
        /\ path[u] = "init"
        /\ slot # None

(***************************************************************************)
(* C25.  Every call of a cached accessor eventually returns, the calls     *)
(* that race for the first initialisation included: under fair scheduling  *)
(* of the threads the constructing thread completes the Once and every     *)
(* thread blocked in Once::call is released, so no call waits forever.     *)
(***************************************************************************)
C25_EveryCallReturns ==
    \A t \in Threads :
        \A n \in 0..(MaxCalls - 1) :
            (pc[t] # "idle" /\ calls[t] = n)
                ~> (pc[t] = "idle" /\ calls[t] = n + 1)

\* every thread has made all its calls, and the first call of one of them
\* went through Once::call while another thread ran the constructor
C25_Witness ==
    /\ \A t \in Threads : pc[t] = "idle" /\ calls[t] = MaxCalls
    /\ \E t, u \in Threads :
          /\ t # u
          /\ got[t][1].path = "slow"
          /\ got[u][1].path = "init"

\* The union of all the sets of a list, built with union from the empty set.
RECURSIVE UnionOfList(_, _)
UnionOfList(sets, n) ==
    IF n = 0 THEN CodePoints_new(<<>>)
    ELSE union(UnionOfList(sets, n - 1), sets[n])

(***************************************************************************)
(* C26.  validate_all_in_any(s, L) is Ok exactly when the union of all the *)
(* sets of L (the empty set when L is empty) contains s.                   *)
(***************************************************************************)
C26_ValidateIsContainsOfUnion ==
    op = "validate_all_in_any" =>
        (ret.ok <=> contains(UnionOfList(list, Len(list)), text))

\* a text of two different characters is accepted, each of its characters
\* being in one set of the list only
C26_Witness ==
    /\ op = "validate_all_in_any"
    /\ ret = Ok
    /\ Len(list) = 2
    /\ Len(chars) >= 2
    /\ chars[1] \in list[1] /\ chars[1] \notin list[2]
    /\ chars[2] \in list[2] /\ chars[2] \notin list[1]

(***************************************************************************)
(* C27.  With the list of the printable ASCII set and the set {U+0030,     *)
(* U+0031, U+0032}, contains_all_in_any returns true for "Hello012" and    *)
(* false for "Hello789".                                                   *)
(***************************************************************************)
C27_MultiCodepointsExample ==
    (kind = "example" /\ op = "contains_all_in_any") =>
        /\ (chars = Hello012 => ret = TRUE)
        /\ (chars = Hello789 => ret = FALSE)

(***************************************************************************)
(* C28.  all_excluded(s) is empty exactly when contains(s) is true, and    *)
(* when it is not empty its first element is the code point that           *)
(* first_excluded(s) returns.                                              *)
(***************************************************************************)
C28_AllExcludedAgrees ==
    /\ op = "all_excluded" =>
          /\ (ret = <<>> <=> contains(self, text))
          /\ (ret # <<>> => first_excluded(self, text) = Some(ret[1]))
    /\ op = "contains" =>
          (ret = TRUE <=> all_excluded(self, text) = <<>>)
    /\ op = "first_excluded" =>
          IF ret = None THEN all_excluded(self, text) = <<>>
          ELSE /\ all_excluded(self, text) # <<>>
               /\ all_excluded(self, text)[1] = ret[1]

\* two different excluded code points after a member of the set
C28_Witness ==
    /\ op = "all_excluded"
    /\ Len(ret) >= 2
    /\ Len(chars) = 3
    /\ chars[1] \in self
    /\ ret[1] = chars[2]
    /\ ret[2] = chars[3]

\* The permutations of the indices 1..n.
Permutations(n) ==
    {p \in [1..n -> 1..n] : \A i, j \in 1..n : i # j => p[i] # p[j]}

(***************************************************************************)
(* C29.  The result of contains_all_in_any(s, L) does not depend on the    *)
(* order of the sets in L nor on a set appearing more than once: it is the *)
(* same for every permutation of L and for L with one of its sets          *)
(* repeated.                                                               *)
(***************************************************************************)
C29_OrderAndRepetition ==
    op = "contains_all_in_any" =>
        /\ \A p \in Permutations(Len(list)) :
              contains_all_in_any(text, [i \in 1..Len(list) |-> list[p[i]]])
                  = ret
        /\ \A k \in DOMAIN list :
              /\ contains_all_in_any(text, Append(list, list[k])) = ret
              /\ contains_all_in_any(text, <<list[k]>> \o list) = ret

\* a text with a repeated character is accepted by two different sets
\* together, the repeated character by the second set only
C29_Witness ==
    /\ kind = "multi"
    /\ op = "contains_all_in_any"
    /\ ret = TRUE
    /\ Len(list) = 2
    /\ Len(chars) = 3
    /\ chars[1] = chars[2]
    /\ chars[1] \in list[2] /\ chars[1] \notin list[1]
    /\ chars[3] \in list[1] /\ chars[3] \notin list[2]

(***************************************************************************)
(* C30.  For every set S and text s, S.contains(s) holds exactly when      *)
(* from_string(s).is_subset_of(S) holds, and from_string(s).contains(s) is *)
(* always true.                                                            *)
(***************************************************************************)
C30_ContainsIsSubsetOfFromString ==
    /\ op = "contains" =>
          ret = is_subset_of(from_string(text), self)
    /\ op = "from_string" =>
          /\ is_subset_of(ret, self) = contains(self, text)
          /\ contains(ret, text) = TRUE

\* the set of a text with a repeated character and a character outside the
\* Basic Multilingual Plane is a proper subset of the receiver
C30_Witness ==
    /\ op = "from_string"
    /\ Len(chars) = 3
    /\ Cardinality(ret) = 2
    /\ 131083 \in ret
    /\ ret \subseteq self
    /\ ret # self

====
